---- MODULE Spec2Model ----
(***************************************************************************)
(* SMC V9.1: the backtest engine (manual_fvg_v9_1_killzones.py) and the    *)
(* live monitor's local risk ledger (live_fvg_monitor.py).                 *)
(*                                                                         *)
(* Numbers.  Bar prices are whole ticks.  A stop is bottom - 0.5*atr, so   *)
(* every level derived from a signal (entry, sl, tp, be_trigger) is kept   *)
(* in units of 1/SL_PADDING_ATR_DEN tick and a bar price p is compared     *)
(* with such a level as Px(p).  Money is kept in units of 1/MoneyScale;    *)
(* MoneyExact states that no division of the run was rounded.              *)
(*                                                                         *)
(* The data frame is the one calculate_features returns: each bar carries  *)
(* its columns high, low, close, ema200, atr, body_size and the hour of    *)
(* its timestamp.  NaN marks an undefined rolling value.                   *)
(***************************************************************************)
EXTENDS Integers, Sequences, FiniteSets, TLC

\* ------------------------------------------------------------------------
\* Program constants of manual_fvg_v9_1_killzones.py
\* ------------------------------------------------------------------------
INITIAL_CAPITAL == 10000
RISK_PER_TRADE_NUM == 1
RISK_PER_TRADE_DEN == 100
TARGET_RR == 2
BE_TRIGGER_RR == 1
ATR_MULTIPLIER == 1
SL_PADDING_ATR_NUM == 1
SL_PADDING_ATR_DEN == 2
KZ_LONDON_START == 7
KZ_LONDON_END == 10
KZ_NY_START == 12
KZ_NY_END == 15
LOOKBACK == 2

\* ------------------------------------------------------------------------
\* Bounds of the model.  ScanStart, StaleAge and TailBars stand for the
\* source's 200 (first scanned bar), 200 (age after which a gap is skipped)
\* and 50 (bars at the end of the series in which no gap is detected),
\* scaled down so that a series of NBars bars walks through all of them;
\* as in the source, the scan starts late enough for gaps of every age up
\* to StaleAge to be waiting for it.
\* ------------------------------------------------------------------------
NBars == 8
ScanStart == 4
StaleAge == 2
TailBars == 1

NaN == -1
MoneyScale == 100 * 100

IsNa(x) == x = NaN
Abs(x) == IF x < 0 THEN -x ELSE x
Px(p) == p * SL_PADDING_ATR_DEN

\* ------------------------------------------------------------------------
\* Input series of the backtest
\* ------------------------------------------------------------------------
Bar(l, h, c, b) ==
    [low |-> l, high |-> h, close |-> c, body_size |-> b,
     ema200 |-> 3, atr |-> 2, hour |-> KZ_LONDON_START]

\* Six bar shapes over the ticks 0..6 around a flat trend of 3 and a flat
\* atr of 2.  BarUp two bars after BarLow leaves a Bullish gap (top 2,
\* bottom 1): LONG entry 2, stop 0, break-even trigger 4, target 6.
\* BarDown two bars after BarHigh leaves a Bearish gap (top 5, bottom 4):
\* SHORT entry 4, stop 6, break-even trigger 2, target 0.  BarWide reaches
\* every level at once, BarFlat none.
BarLow == Bar(0, 1, 0, 1)
BarUp == Bar(2, 5, 5, 3)
BarHigh == Bar(5, 6, 6, 1)
BarDown == Bar(1, 4, 1, 3)
BarWide == Bar(0, 6, 3, 0)
BarFlat == Bar(3, 3, 3, 0)
BTBars == {BarLow, BarUp, BarHigh, BarDown, BarWide, BarFlat}

BarIdx == 0 .. (NBars - 1)

\* The first LOOKBACK bars are only ever looked back at for their high and
\* low: one below every other bar's low, one above every other bar's high.
WarmupBars == {BarLow, BarHigh}

\* ------------------------------------------------------------------------
\* State
\* ------------------------------------------------------------------------
VARIABLES
    df,        \* the bar series with its feature columns, indexed from 0
    fvgs,      \* the list detect_displacement_fvgs returned; flags mutate
    pc,        \* "start" | "scan" | "trade" | "done": position in run_backtest
    i,         \* outer scan index
    j,         \* inner (future bar) index
    capital,   \* running balance, in 1/MoneyScale
    trades,    \* the trade log
    cur,       \* locals of the trade being simulated
    signals,   \* history: every non-None value check_signal returned
    audit,     \* history: per logged trade, its levels and bars
    \* LocalRiskManager's statistics, called on a loaded list
    rm_history,  \* the list load_history returned
    rm_now,      \* datetime.now(timezone.utc)
    rm_out,      \* what calculate_stats and calculate_risk_percent returned
    rm_prev,     \* what the call before that returned
    \* live_fvg_monitor.py, one job() per scheduled cycle
    history_file,      \* trade_history.json
    LAST_SIGNAL_TIME,  \* the module global
    now,               \* the wall clock (UTC), in bars of one hour
    closed_bars,       \* df.iloc[-2] and df.iloc[-4] of the current hour
    last_job,          \* history: what the last job() did
    pushed,            \* history: the bar times of the signals sent so far
    faults,            \* the cycles so far with a failed load or save
    \* two monitor processes on one trade_history.json
    procs,             \* per process: where its job() is, and its locals
    saved              \* history: what the save_history calls wrote

btVars == <<df, fvgs, pc, i, j, capital, trades, cur, signals, audit>>
rmVars == <<rm_history, rm_now, rm_out, rm_prev>>
liveVars == <<history_file, LAST_SIGNAL_TIME, now, closed_bars, last_job, pushed,
              faults>>
shVars == <<procs, saved>>
vars == <<btVars, rmVars, liveVars, shVars>>

\* ------------------------------------------------------------------------
\* 1. Core algorithms
\* ------------------------------------------------------------------------
\* The session test with the last hour of each session left out.
is_killzone_hour_EndExclusive(hour) ==
    \/ (KZ_LONDON_START <= hour /\ hour < KZ_LONDON_END)
    \/ (KZ_NY_START <= hour /\ hour < KZ_NY_END)

is_killzone_hour(hour) ==
    \/ (KZ_LONDON_START <= hour /\ hour <= KZ_LONDON_END)
    \/ (KZ_NY_START <= hour /\ hour <= KZ_NY_END)

\* The loop body without the session test.
DetectAt_AnyHour(d, k) ==
    IF IsNa(d[k].ema200) \/ IsNa(d[k].atr) THEN << >>
    ELSE IF ~ (d[k].body_size > ATR_MULTIPLIER * d[k].atr) THEN << >>
    ELSE IF d[k].close > d[k].ema200
         THEN IF d[k].low > d[k - 2].high
              THEN << [type |-> "Bullish", top |-> d[k].low,
                       bottom |-> d[k - 2].high, mitigated |-> FALSE,
                       created_at |-> k] >>
              ELSE << >>
    ELSE IF d[k].close < d[k].ema200
         THEN IF d[k].high < d[k - 2].low
              THEN << [type |-> "Bearish", top |-> d[k - 2].low,
                       bottom |-> d[k].high, mitigated |-> FALSE,
                       created_at |-> k] >>
              ELSE << >>
    ELSE << >>

\* The body of detect_displacement_fvgs' loop for bar k: the gaps (none or
\* one) appended at k.
DetectAt(d, k) ==
    IF IsNa(d[k].ema200) \/ IsNa(d[k].atr) THEN << >>
    ELSE IF ~ is_killzone_hour(d[k].hour) THEN << >>
    ELSE IF ~ (d[k].body_size > ATR_MULTIPLIER * d[k].atr) THEN << >>
    ELSE IF d[k].close > d[k].ema200
         THEN IF d[k].low > d[k - 2].high
              THEN << [type |-> "Bullish", top |-> d[k].low,
                       bottom |-> d[k - 2].high, mitigated |-> FALSE,
                       created_at |-> k] >>
              ELSE << >>
    ELSE IF d[k].close < d[k].ema200
         THEN IF d[k].high < d[k - 2].low
              THEN << [type |-> "Bearish", top |-> d[k - 2].low,
                       bottom |-> d[k].high, mitigated |-> FALSE,
                       created_at |-> k] >>
              ELSE << >>
    ELSE << >>

RECURSIVE DetectFrom(_, _, _)
DetectFrom(d, k, n) ==
    IF k >= n - TailBars THEN << >>
    ELSE DetectAt(d, k) \o DetectFrom(d, k + 1, n)

detect_displacement_fvgs(d, n) == DetectFrom(d, LOOKBACK, n)

\* ------------------------------------------------------------------------
\* 2. Strategy engine
\* ------------------------------------------------------------------------
None == [type |-> "None"]

\* Eligible without the test of the mitigated flag.
Eligible_IgnoreMitigated(k, f) ==
    /\ ~ (f.created_at >= k)
    /\ ~ (k - f.created_at > StaleAge)

\* Eligible without the test of the gap's age.
Eligible_NoExpiry(k, f) ==
    /\ ~ (f.created_at >= k)
    /\ ~ f.mitigated

\* Lines 121-126: the three tests that skip a gap at bar k.
Eligible(k, f) ==
    /\ ~ (f.created_at >= k)
    /\ ~ f.mitigated
    /\ ~ (k - f.created_at > StaleAge)

Triggered(candle, f) ==
    \/ f.type = "Bullish" /\ candle.low <= f.top
    \/ f.type = "Bearish" /\ candle.high >= f.bottom

\* The signal with its stop on the far edge of the gap, without padding.
SignalOf_NoPadding(candle, f, g) ==
    IF f.type = "Bullish"
    THEN [type |-> "LONG", entry |-> Px(f.top), sl |-> Px(f.bottom), fvg |-> g]
    ELSE [type |-> "SHORT", entry |-> Px(f.bottom), sl |-> Px(f.top), fvg |-> g]

SignalOf(candle, f, g) ==
    IF f.type = "Bullish"
    THEN [type |-> "LONG", entry |-> Px(f.top),
          sl |-> Px(f.bottom) - SL_PADDING_ATR_NUM * candle.atr, fvg |-> g]
    ELSE [type |-> "SHORT", entry |-> Px(f.bottom),
          sl |-> Px(f.top) + SL_PADDING_ATR_NUM * candle.atr, fvg |-> g]

\* The loop over the gaps taken from the newest gap down.
RECURSIVE FirstMatch_NewestFirst(_, _, _, _)
FirstMatch_NewestFirst(k, candle, fs, g) ==
    IF g > Len(fs) THEN None
    ELSE LET h == Len(fs) + 1 - g IN
         IF Eligible(k, fs[h]) /\ Triggered(candle, fs[h])
         THEN SignalOf(candle, fs[h], h)
         ELSE FirstMatch_NewestFirst(k, candle, fs, g + 1)

RECURSIVE FirstMatch(_, _, _, _)
FirstMatch(k, candle, fs, g) ==
    IF g > Len(fs) THEN None
    ELSE IF Eligible(k, fs[g]) /\ Triggered(candle, fs[g])
         THEN SignalOf(candle, fs[g], g)
         ELSE FirstMatch(k, candle, fs, g + 1)

check_signal(k, d, fs) ==
    IF k < ScanStart THEN None
    ELSE IF IsNa(d[k].atr) THEN None
    ELSE FirstMatch(k, d[k], fs, 1)

\* ------------------------------------------------------------------------
\* 3. Backtest loop
\* ------------------------------------------------------------------------
NoTrade == [outcome |-> "None"]

\* Line 190: signal['fvg']['mitigated'] = True.
Mitigate(fs, g) == [fs EXCEPT ![g].mitigated = TRUE]

\* risk_amt taken from the starting capital instead of the balance.
RiskAmt_InitialCapital(cap) ==
    (INITIAL_CAPITAL * MoneyScale * RISK_PER_TRADE_NUM) \div RISK_PER_TRADE_DEN

\* Line 182: risk_amt = capital * RISK_PER_TRADE.
RiskAmt(cap) == (cap * RISK_PER_TRADE_NUM) \div RISK_PER_TRADE_DEN

\* Lines 173-191: the locals set when a signal is taken at bar k.
EnterTrade(sig, k, cap) ==
    LET risk == Abs(sig.entry - sig.sl) IN
    [direction |-> sig.type, entry |-> sig.entry, sl |-> sig.sl,
     risk |-> risk, risk_amt |-> RiskAmt(cap),
     tp |-> IF sig.type = "LONG" THEN sig.entry + risk * TARGET_RR
                                 ELSE sig.entry - risk * TARGET_RR,
     be_trigger |-> IF sig.type = "LONG" THEN sig.entry + risk * BE_TRIGGER_RR
                                         ELSE sig.entry - risk * BE_TRIGGER_RR,
     outcome |-> "Running", pnl |-> 0, is_be |-> FALSE,
     fvg |-> sig.fvg, at |-> k, cap_at |-> cap, armed_at |-> NaN]

\* The stop test keeps the original stop after break-even was armed.
CurrentSl_Original(t) == t.sl

\* Lines 198, 211: current_sl = entry if is_be else sl.
CurrentSl(t) == IF t.is_be THEN t.entry ELSE t.sl

StopHit(t, future) ==
    IF t.direction = "LONG" THEN Px(future.low) <= CurrentSl(t)
                            ELSE Px(future.high) >= CurrentSl(t)

TargetHit(t, future) ==
    IF t.direction = "LONG" THEN Px(future.high) >= t.tp
                            ELSE Px(future.low) <= t.tp

TriggerHit(t, future) ==
    IF t.direction = "LONG" THEN Px(future.high) >= t.be_trigger
                            ELSE Px(future.low) <= t.be_trigger

\* The inner loop's body with the target tested before the stop.
EvalBar_TargetFirst(t, future, n) ==
    IF TargetHit(t, future)
    THEN [t EXCEPT !.outcome = "Win", !.pnl = t.risk_amt * TARGET_RR]
    ELSE IF StopHit(t, future)
    THEN [t EXCEPT !.outcome = IF t.is_be THEN "BE" ELSE "Loss",
                   !.pnl = IF t.is_be THEN 0 ELSE - t.risk_amt]
    ELSE IF ~ t.is_be /\ TriggerHit(t, future)
    THEN [t EXCEPT !.is_be = TRUE, !.armed_at = n]
    ELSE t

\* Lines 195-221: one iteration of the inner loop on bar `future` (index n).
EvalBar(t, future, n) ==
    IF StopHit(t, future)
    THEN [t EXCEPT !.outcome = IF t.is_be THEN "BE" ELSE "Loss",
                   !.pnl = IF t.is_be THEN 0 ELSE - t.risk_amt]
    ELSE IF TargetHit(t, future)
    THEN [t EXCEPT !.outcome = "Win", !.pnl = t.risk_amt * TARGET_RR]
    ELSE IF ~ t.is_be /\ TriggerHit(t, future)
    THEN [t EXCEPT !.is_be = TRUE, !.armed_at = n]
    ELSE t

\* Lines 223-232: the balance after a finished trade, and its log entry.
Settle(cap, t) == cap + t.pnl

LogEntry(t, cap) ==
    [Time |-> t.at, Type |-> t.direction, Result |-> t.outcome,
     PnL |-> t.pnl, Balance |-> cap]

\* ========================================================================
\* live_fvg_monitor.py
\* ========================================================================
\* Time stamps are whole hours since the start of day 0 (UTC); the ledger's
\* 'time' and 'close_time' hold such stamps.  risk_percent is in percent.
LIMIT == 250
SMA_PERIOD == 200
WARMUP_EXTRA == 10
LIVE_ATR_MULTIPLIER == 1
SL_PADDING_NUM == 1
SL_PADDING_DEN == 2
RISK_REWARD == 2
DAILY_LOSS_LIMIT == 3
KZ_LONDON == {7, 8, 9, 10}
KZ_NY == {12, 13, 14, 15}

HourOf(t) == t % 24
\* Line 165: datetime.now(utc).replace(hour=0, minute=0, second=0, ...).
TodayStart(t) == t - (t % 24)

\* The ledger file: its content, and whether json.load can read it.
FileOf(history) == [readable |-> TRUE, content |-> history]
Unreadable == [readable |-> FALSE, content |-> << >>]

\* A load that hands back the list of the file although reading it failed.
load_history_IgnoreFailure(file, read_ok) == file.content

\* Lines 92-101: the list read from the file, or [] when the file is
\* missing or reading it raises.
load_history(file, read_ok) ==
    IF read_ok /\ file.readable THEN file.content ELSE << >>

\* Lines 103-109: the file after save_history(history): written, or left as
\* it was when open() raises, or cut short when json.dump raises after
\* open(..., 'w') emptied it.
SaveOutcomes == {"written", "refused", "truncated"}

save_history(file, history, outcome) ==
    IF outcome = "written" THEN FileOf(history)
    ELSE IF outcome = "refused" THEN file
    ELSE Unreadable

CloseTrade(trade, result, price, t) ==
    [status |-> "CLOSED", result |-> result, close_price |-> price,
     close_time |-> t] @@ trade

\* The loop body setting the result of a reached entry and nothing else.
ResolveTrade_ResultOnly(trade, current_high, current_low, t) ==
    IF trade.status /= "OPEN" THEN trade
    ELSE LET hit_tp == IF trade.type = "LONG"
                       THEN Px(current_high) >= trade.tp
                       ELSE Px(current_low) <= trade.tp
             hit_sl == ~ hit_tp /\ IF trade.type = "LONG"
                                   THEN Px(current_low) <= trade.sl
                                   ELSE Px(current_high) >= trade.sl
         IN IF hit_tp THEN [trade EXCEPT !.result = "WIN"]
            ELSE IF hit_sl THEN [trade EXCEPT !.result = "LOSS"]
            ELSE trade

\* The loop body with the stop tested before the target.
ResolveTrade_StopFirst(trade, current_high, current_low, t) ==
    IF trade.status /= "OPEN" THEN trade
    ELSE LET hit_sl == IF trade.type = "LONG"
                       THEN Px(current_low) <= trade.sl
                       ELSE Px(current_high) >= trade.sl
             hit_tp == ~ hit_sl /\ IF trade.type = "LONG"
                                   THEN Px(current_high) >= trade.tp
                                   ELSE Px(current_low) <= trade.tp
         IN IF hit_tp THEN CloseTrade(trade, "WIN", trade.tp, t)
            ELSE IF hit_sl THEN CloseTrade(trade, "LOSS", trade.sl, t)
            ELSE trade

\* The loop body without the skip of entries that are not OPEN.
ResolveTrade_Revisit(trade, current_high, current_low, t) ==
    LET hit_tp == IF trade.type = "LONG"
                  THEN Px(current_high) >= trade.tp
                  ELSE Px(current_low) <= trade.tp
        hit_sl == ~ hit_tp /\ IF trade.type = "LONG"
                              THEN Px(current_low) <= trade.sl
                              ELSE Px(current_high) >= trade.sl
        open == [k \in DOMAIN trade \ {"close_price", "close_time"} |-> trade[k]]
    IN IF hit_tp THEN CloseTrade(open, "WIN", trade.tp, t)
       ELSE IF hit_sl THEN CloseTrade(open, "LOSS", trade.sl, t)
       ELSE trade

\* Lines 116-153: the loop body of update_open_trades for one entry.
ResolveTrade(trade, current_high, current_low, t) ==
    IF trade.status /= "OPEN" THEN trade
    ELSE LET hit_tp == IF trade.type = "LONG"
                       THEN Px(current_high) >= trade.tp
                       ELSE Px(current_low) <= trade.tp
             hit_sl == ~ hit_tp /\ IF trade.type = "LONG"
                                   THEN Px(current_low) <= trade.sl
                                   ELSE Px(current_high) >= trade.sl
         IN IF hit_tp THEN CloseTrade(trade, "WIN", trade.tp, t)
            ELSE IF hit_sl THEN CloseTrade(trade, "LOSS", trade.sl, t)
            ELSE trade

\* Lines 111-158: the list update_open_trades holds after its loop; it is
\* saved when an entry changed (updated).
UpdatedHistory(history, current_high, current_low, t) ==
    [p \in 1 .. Len(history) |->
        ResolveTrade(history[p], current_high, current_low, t)]

\* Lines 170-178: LOSS entries whose time is today or later.
DailyLossCount(history, t) ==
    Cardinality({p \in 1 .. Len(history) :
                   /\ history[p].result = "LOSS"
                   /\ history[p].time >= TodayStart(t)})

\* The backward scan stopping at a WIN only.
RECURSIVE ConsecutiveFrom_WinOnly(_, _)
ConsecutiveFrom_WinOnly(history, p) ==
    IF p = 0 THEN 0
    ELSE IF history[p].result = "LOSS"
         THEN 1 + ConsecutiveFrom_WinOnly(history, p - 1)
    ELSE IF history[p].result = "WIN" THEN 0
    ELSE ConsecutiveFrom_WinOnly(history, p - 1)

\* Lines 180-185: the scan of reversed(history) from position p down.
RECURSIVE ConsecutiveFrom(_, _)
ConsecutiveFrom(history, p) ==
    IF p = 0 THEN 0
    ELSE IF history[p].result = "LOSS"
         THEN 1 + ConsecutiveFrom(history, p - 1)
    ELSE IF history[p].result \in {"WIN", "PENDING"} THEN 0
    ELSE ConsecutiveFrom(history, p - 1)

\* Lines 160-190.
calculate_stats(history, t) ==
    [daily_loss |-> DailyLossCount(history, t),
     consecutive_loss |-> ConsecutiveFrom(history, Len(history))]

\* The tier alone, without the circuit breaker.
RiskOfStats_NoBreaker(st) ==
    IF st.consecutive_loss >= 10 THEN 1
    ELSE IF st.consecutive_loss >= 5 THEN 2
    ELSE IF st.consecutive_loss >= 2 THEN 3
    ELSE 5

\* The tiers with the thresholds of 3% and 2% exchanged.
RiskOfStats_TiersExchanged(st) ==
    LET risk_percent == IF st.consecutive_loss >= 10 THEN 1
                        ELSE IF st.consecutive_loss >= 5 THEN 3
                        ELSE IF st.consecutive_loss >= 2 THEN 2
                        ELSE 5
    IN IF st.daily_loss >= DAILY_LOSS_LIMIT THEN 0 ELSE risk_percent

\* Lines 196-212: the tier of the consecutive losses, 0 on three losses
\* of the day.
RiskOfStats(st) ==
    LET risk_percent == IF st.consecutive_loss >= 10 THEN 1
                        ELSE IF st.consecutive_loss >= 5 THEN 2
                        ELSE IF st.consecutive_loss >= 2 THEN 3
                        ELSE 5
    IN IF st.daily_loss >= DAILY_LOSS_LIMIT THEN 0 ELSE risk_percent

\* The tier of the consecutive losses, whatever the day's losses.
calculate_risk_percent_TierOnly(history, t) ==
    RiskOfStats_NoBreaker(calculate_stats(history, t))

\* Lines 192-212 on the list load_history returned.
calculate_risk_percent(history, t) == RiskOfStats(calculate_stats(history, t))

\* Lines 229-248: the list add_signal saves.
NewTrade(signal) ==
    [time |-> signal.time_utc, type |-> signal.type, entry |-> signal.entry,
     sl |-> signal.sl, tp |-> signal.tp, status |-> "OPEN",
     result |-> "PENDING"]

AddedHistory(history, signal) == Append(history, NewTrade(signal))

NoResult == [risk_percent |-> NaN]

BacktestIdle ==
    /\ df = << >> /\ fvgs = << >> /\ pc = "idle" /\ i = 0 /\ j = 0
    /\ capital = 0 /\ trades = << >> /\ cur = NoTrade
    /\ signals = << >> /\ audit = << >>

RiskIdle ==
    /\ rm_history = << >> /\ rm_now = 0 /\ rm_out = NoResult
    /\ rm_prev = NoResult

NoJob == [kind |-> "none"]

LiveIdle ==
    /\ history_file = FileOf(<< >>) /\ LAST_SIGNAL_TIME = NaN /\ now = 0
    /\ closed_bars = << >> /\ last_job = NoJob /\ pushed = << >>
    /\ faults = 0

SharedIdle == procs = << >> /\ saved = {}

InitBacktest ==
    /\ RiskIdle
    /\ LiveIdle
    /\ SharedIdle
    /\ df \in {[k \in BarIdx |-> IF k < LOOKBACK THEN w[k] ELSE b[k]] :
                 w \in [0 .. (LOOKBACK - 1) -> WarmupBars],
                 b \in [LOOKBACK .. (NBars - 1) -> BTBars]}
    /\ fvgs = << >>
    /\ pc = "start"
    /\ i = 0
    /\ j = 0
    /\ capital = INITIAL_CAPITAL * MoneyScale
    /\ trades = << >>
    /\ cur = NoTrade
    /\ signals = << >>
    /\ audit = << >>

\* Lines 156-167: features are columns of df; detect the gaps, i = 200.
Begin ==
    /\ pc = "start"
    /\ fvgs' = detect_displacement_fvgs(df, NBars)
    /\ i' = ScanStart
    /\ pc' = "scan"
    /\ UNCHANGED <<df, j, capital, trades, cur, signals, audit, rmVars, liveVars, shVars>>

\* Lines 169-191 and 234: one pass of the while loop up to the inner loop.
ScanStep ==
    /\ pc = "scan"
    /\ i < NBars - 1
    /\ LET signal == check_signal(i, df, fvgs) IN
       IF signal = None
       THEN /\ i' = i + 1
            /\ UNCHANGED <<fvgs, pc, j, cur, signals>>
       ELSE /\ signals' = Append(signals, [fvg |-> signal.fvg, at |-> i])
            /\ IF Abs(signal.entry - signal.sl) = 0
               THEN /\ i' = i + 1
                    /\ UNCHANGED <<fvgs, pc, j, cur>>
               ELSE /\ cur' = EnterTrade(signal, i, capital)
                    /\ fvgs' = Mitigate(fvgs, signal.fvg)
                    /\ j' = i + 1
                    /\ pc' = "trade"
                    /\ UNCHANGED i
    /\ UNCHANGED <<df, capital, trades, audit, rmVars, liveVars, shVars>>

\* The scan going back to the bar before the one that closed the trade.
NextScan_Rewind(exit) == exit - 1

\* The scan going on at the bar that closed the trade.
NextScan_SameBar(exit) == exit

\* Lines 232 and 234: i = j, then the i += 1 that ends every pass.
NextScan(exit) == exit + 1

\* Lines 194-234: one iteration of the for loop and, when it is the last
\* one, the rest of the while loop's pass.
TradeStep ==
    /\ pc = "trade"
    /\ LET t == EvalBar(cur, df[j], j) IN
       IF t.outcome /= "Running"
       THEN /\ capital' = Settle(capital, t)
            /\ trades' = Append(trades, LogEntry(t, Settle(capital, t)))
            /\ audit' = Append(audit, t @@ [exit |-> j])
            /\ i' = NextScan(j)
            /\ cur' = NoTrade
            /\ pc' = "scan"
            /\ UNCHANGED j
       ELSE IF j + 1 < NBars
       THEN /\ cur' = t
            /\ j' = j + 1
            /\ UNCHANGED <<capital, trades, audit, i, pc>>
       ELSE /\ cur' = NoTrade
            /\ i' = i + 1
            /\ pc' = "scan"
            /\ UNCHANGED <<capital, trades, audit, j>>
    /\ UNCHANGED <<df, fvgs, signals, rmVars, liveVars, shVars>>

\* Line 236: the loop condition fails and run_backtest returns.
Finish ==
    /\ pc = "scan"
    /\ ~ (i < NBars - 1)
    /\ pc' = "done"
    /\ UNCHANGED <<df, fvgs, i, j, capital, trades, cur, signals, audit, rmVars, liveVars, shVars>>

\* ------------------------------------------------------------------------
\* Properties of the backtest
\* ------------------------------------------------------------------------
\* The levels of a simulated trade t seen from the bars alone.
AdverseReaches(t, n, level) ==
    IF t.direction = "LONG" THEN Px(df[n].low) <= level
                            ELSE Px(df[n].high) >= level

FavorableReaches(t, n, level) ==
    IF t.direction = "LONG" THEN Px(df[n].high) >= level
                            ELSE Px(df[n].low) <= level

\* The stop in force on bar n: the entry once an earlier bar armed
\* break-even, the signal's stop before.
StopOn(t, n) == IF ~ IsNa(t.armed_at) /\ t.armed_at < n THEN t.entry ELSE t.sl

BothReached(t, n) ==
    AdverseReaches(t, n, StopOn(t, n)) /\ FavorableReaches(t, n, t.tp)

\* C1: no gap is the source of two signals: the signals check_signal
\* returned over the run name pairwise different gaps, each of them is
\* marked mitigated once its trade was entered, and the bar being scanned
\* never gets a signal from a gap that already gave one.
C1_MitigationExclusive ==
    /\ \A p, q \in DOMAIN signals :
         p /= q => signals[p].fvg /= signals[q].fvg
    /\ \A p \in DOMAIN signals : fvgs[signals[p].fvg].mitigated
    /\ (pc = "scan" /\ i < NBars - 1) =>
         LET s == check_signal(i, df, fvgs) IN
         s /= None => \A p \in DOMAIN signals : signals[p].fvg /= s.fvg

\* A gap that gave a signal is re-entered by the price of the bar under
\* scan while it is still young enough to be matched.
C1_Witness ==
    /\ pc = "scan" /\ i < NBars - 1
    /\ \E p \in DOMAIN signals :
         LET f == fvgs[signals[p].fvg] IN
         /\ f.created_at < i
         /\ i - f.created_at <= StaleAge
         /\ Triggered(df[i], f)

PrevBalance(k) ==
    IF k = 1 THEN INITIAL_CAPITAL * MoneyScale ELSE trades[k - 1].Balance

\* C4: every logged trade is Win, Loss or BE; with risk_amt the
\* RISK_PER_TRADE share of the balance at its entry, its PnL is
\* +risk_amt*TARGET_RR, -risk_amt or 0; its Balance is the previous balance
\* plus its PnL; and the balance moves only when a trade is logged.
C4_Accounting ==
    /\ Len(audit) = Len(trades)
    /\ \A k \in DOMAIN trades :
         LET tr == trades[k]
             at_entry == audit[k].cap_at
         IN /\ tr.Result \in {"Win", "Loss", "BE"}
            /\ at_entry = PrevBalance(k)
            /\ LET ra == (at_entry * RISK_PER_TRADE_NUM) \div RISK_PER_TRADE_DEN
               IN /\ ra * RISK_PER_TRADE_DEN = at_entry * RISK_PER_TRADE_NUM
                  /\ tr.Result = "Win" => tr.PnL = ra * TARGET_RR
                  /\ tr.Result = "Loss" => tr.PnL = - ra
                  /\ tr.Result = "BE" => tr.PnL = 0
            /\ tr.Balance = PrevBalance(k) + tr.PnL
    /\ capital = PrevBalance(Len(trades) + 1)
    /\ cur /= NoTrade =>
         /\ cur.cap_at = capital
         /\ cur.risk_amt * RISK_PER_TRADE_DEN = capital * RISK_PER_TRADE_NUM

\* Two trades were logged, a Win and then a Loss sized on the new balance.
C4_Witness ==
    /\ Len(trades) = 2
    /\ trades[1].Result = "Win"
    /\ trades[2].Result = "Loss"
    /\ trades[2].PnL /= - RiskAmt(INITIAL_CAPITAL * MoneyScale)

\* C5: a bar after entry that reaches both the stop in force and the
\* target ends the trade there, as Loss (BE when break-even was armed),
\* never as Win.
C5_StopBeforeTarget ==
    /\ \A k \in DOMAIN audit :
         LET t == audit[k] IN
         \A n \in (t.at + 1) .. t.exit :
           BothReached(t, n) =>
             /\ n = t.exit
             /\ t.outcome = (IF IsNa(t.armed_at) THEN "Loss" ELSE "BE")
    /\ (pc = "trade") =>
         \A n \in (cur.at + 1) .. (j - 1) : ~ BothReached(cur, n)

\* Trades ended on a bar reaching stop and target: one not armed, a Loss.
C5_Witness ==
    \E k \in DOMAIN audit :
      /\ BothReached(audit[k], audit[k].exit)
      /\ IsNa(audit[k].armed_at)
      /\ trades[k].Result = "Loss"

\* C6: after a bar on which neither test fired reached the break-even
\* trigger, every later stop test is against the entry: the trade runs on
\* only over bars whose adverse side stays off the entry, ends as BE with
\* PnL 0 on the first that reaches it, and never ends as Loss; a trade is
\* armed on the first bar reaching the trigger, and never on the bar that
\* ended it.
Armed(t) == ~ IsNa(t.armed_at)

C6_ArmedFrom(t, upto) ==
    /\ \A n \in (t.at + 1) .. upto :
         (FavorableReaches(t, n, t.be_trigger) /\ (Armed(t) => n <= t.armed_at))
           => t.armed_at = n
    /\ Armed(t) =>
         /\ t.at < t.armed_at /\ t.armed_at <= upto
         /\ FavorableReaches(t, t.armed_at, t.be_trigger)
         /\ ~ AdverseReaches(t, t.armed_at, t.sl)
         /\ ~ FavorableReaches(t, t.armed_at, t.tp)
         /\ \A n \in (t.armed_at + 1) .. upto :
              ~ AdverseReaches(t, n, t.entry)

C6_BreakEven ==
    /\ \A k \in DOMAIN audit :
         LET t == audit[k] IN
         /\ C6_ArmedFrom(t, t.exit - 1)
         /\ Armed(t) =>
              /\ t.outcome \in {"BE", "Win"}
              /\ t.outcome = "BE" <=> AdverseReaches(t, t.exit, t.entry)
              /\ t.outcome = "BE" => trades[k].PnL = 0
         /\ ~ Armed(t) => t.outcome \in {"Loss", "Win"}
    /\ (pc = "trade") =>
         /\ C6_ArmedFrom(cur, j - 1)
         /\ cur.is_be <=> Armed(cur)

\* A trade armed break-even, ran over a later bar and then ended as BE.
C6_Witness ==
    \E k \in DOMAIN audit :
      /\ Armed(audit[k])
      /\ audit[k].exit > audit[k].armed_at + 1
      /\ trades[k].Result = "BE"

\* C7: a trade is entered only at or after the bar on which every trade
\* entered before it reached Win, Loss or BE.
C7_OneTradeAtATime ==
    \A p, q \in DOMAIN signals :
      p < q =>
        \E k \in DOMAIN audit :
          /\ audit[k].at = signals[p].at
          /\ audit[k].exit <= signals[q].at

\* ------------------------------------------------------------------------
\* The statistics of LocalRiskManager on every list of a bounded family
\* ------------------------------------------------------------------------
MaxHist == 4
MaxOldLosses == 8
MaxDayLosses == 3

\* A ledger entry as add_signal writes and update_open_trades closes it.
Yesterday == KZ_NY_END
Today == 24 + KZ_LONDON_START

Entry(result, t) ==
    LET open == [time |-> t, type |-> "LONG", entry |-> Px(2), sl |-> 0,
                 tp |-> Px(6), status |-> "OPEN", result |-> "PENDING"]
    IN IF result = "PENDING" THEN open
       ELSE CloseTrade(open, result,
                       IF result = "WIN" THEN open.tp ELSE open.sl, t + 1)

Entries == {Entry(r, t) : r \in {"WIN", "LOSS", "PENDING"},
                          t \in {Yesterday, Today}}

\* Entries are appended in the order of their bars.
InTimeOrder(h) == \A p, q \in 1 .. Len(h) : p < q => h[p].time <= h[q].time

ShortHistories ==
    {h \in UNION {[1 .. n -> Entries] : n \in 0 .. MaxHist} : InTimeOrder(h)}

Repeat(e, n) == [p \in 1 .. n |-> e]

StreakHistories ==
    {head \o Repeat(Entry("LOSS", Yesterday), a)
          \o Repeat(Entry("LOSS", Today), b) \o tail :
       head \in {<< >>, <<Entry("WIN", Yesterday)>>,
                 <<Entry("PENDING", Yesterday)>>},
       a \in 0 .. MaxOldLosses, b \in 0 .. MaxDayLosses,
       tail \in {<< >>, <<Entry("WIN", Today)>>, <<Entry("PENDING", Today)>>}}

InitRisk ==
    /\ BacktestIdle
    /\ LiveIdle
    /\ SharedIdle
    /\ rm_history \in ShortHistories \cup StreakHistories
    /\ rm_now \in {Today + 1, Today + 24}
    /\ rm_out = NoResult
    /\ rm_prev = NoResult

\* calculate_stats() and calculate_risk_percent() on the loaded list.
Evaluate ==
    /\ rm_out = NoResult
    /\ rm_out' = [stats |-> calculate_stats(rm_history, rm_now),
                  risk_percent |-> calculate_risk_percent(rm_history, rm_now)]
    /\ UNCHANGED <<rm_history, rm_now, rm_prev, btVars, liveVars, shVars>>

\* The same two calls once more, at once or an hour later in the same day.
Reevaluate ==
    /\ rm_out /= NoResult /\ rm_prev = NoResult
    /\ \E t \in {rm_now, rm_now + 1} :
         /\ TodayStart(t) = TodayStart(rm_now)
         /\ rm_now' = t
         /\ rm_out' = [stats |-> calculate_stats(rm_history, t),
                       risk_percent |-> calculate_risk_percent(rm_history, t)]
    /\ rm_prev' = rm_out
    /\ UNCHANGED <<rm_history, btVars, liveVars, shVars>>

NextRisk == Evaluate \/ Reevaluate

SpecRisk == InitRisk /\ [][NextRisk]_vars

\* C2: three or more LOSS entries timed on or after the start of the
\* current UTC day make calculate_risk_percent return 0, whatever tier the
\* consecutive losses give.
LossesOfDay(h, t) ==
    {p \in DOMAIN h : h[p].result = "LOSS" /\ h[p].time \div 24 >= t \div 24}

C2_BreakerDominates ==
    (rm_out /= NoResult /\ Cardinality(LossesOfDay(rm_history, rm_now)) >= 3)
      => rm_out.risk_percent = 0

\* Evaluated lists with three losses of the day: one whose streak of ten
\* alone gives the 1% tier, and one whose newest entry is a WIN (5% tier).
C2_Witness ==
    /\ rm_out /= NoResult
    /\ rm_out.risk_percent = 0
    /\ rm_out.stats.daily_loss = 3
    /\ rm_out.stats.consecutive_loss >= 10

\* C10: consecutive_loss is the number of LOSS entries that have only
\* LOSS entries after them: the scan from the newest entry back stops at
\* the first WIN or PENDING, so it is 0 when the newest entry is a WIN and
\* no entry before that first WIN or PENDING counts.
TrailingLosses(h) ==
    {p \in DOMAIN h : \A q \in p .. Len(h) : h[q].result = "LOSS"}

C10_ConsecutiveLoss ==
    rm_out /= NoResult =>
      /\ rm_out.stats.consecutive_loss = Cardinality(TrailingLosses(rm_history))
      /\ (rm_history /= << >> /\ rm_history[Len(rm_history)].result = "WIN")
           => rm_out.stats.consecutive_loss = 0

\* A LOSS, then a PENDING entry, then two LOSS entries: the count is 2.
C10_Witness ==
    /\ rm_out /= NoResult
    /\ Len(rm_history) = 4
    /\ rm_history[1].result = "LOSS"
    /\ rm_history[2].result = "PENDING"
    /\ rm_out.stats.consecutive_loss = 2

\* C11: with fewer than three losses of the day the tier is 1% from ten
\* consecutive losses, 2% from five, 3% from two and 5% below that, so a
\* longer streak never gives a higher tier; the same list on the same UTC
\* day gives the same statistics and tier again, and no evaluation changes
\* the list.
TierOf(streak) ==
    IF streak >= 10 THEN 1 ELSE IF streak >= 5 THEN 2
    ELSE IF streak >= 2 THEN 3 ELSE 5

C11_TierTable ==
    rm_out /= NoResult =>
      /\ Cardinality(LossesOfDay(rm_history, rm_now)) < 3
           => rm_out.risk_percent = TierOf(Cardinality(TrailingLosses(rm_history)))
      /\ \A longer \in 0 .. MaxOldLosses + MaxDayLosses + 1 :
           longer >= rm_out.stats.consecutive_loss
             => RiskOfStats([rm_out.stats EXCEPT !.consecutive_loss = longer])
                  <= rm_out.risk_percent
      /\ rm_prev /= NoResult => rm_out = rm_prev

C11_TierIsPure ==
    []C11_TierTable /\ [][rm_history' = rm_history]_vars

\* A second evaluation, an hour later, of a list with a streak of five
\* and two losses of the day: 2% both times.
C11_Witness ==
    /\ rm_prev /= NoResult
    /\ rm_now = Today + 2
    /\ rm_out.risk_percent = 2
    /\ rm_out.stats.consecutive_loss >= 5
    /\ rm_out.stats.daily_loss = 2

\* ------------------------------------------------------------------------
\* live_fvg_monitor.py: job() once per scheduled cycle
\* ------------------------------------------------------------------------
LastNow == 32
MaxPrior == 3
MaxLedger == 4
MaxFaults == 1

\* The process starts when the first New York bar of a day has closed; the
\* cycles that matter after that day's second New York bar are those after
\* the close of the next day's first London bar.
FirstCycle == KZ_NY_START + 1
LastCycle == FirstCycle + 1
NextDayCycle == KZ_LONDON_START + 1

\* The file the process finds: what the London session of the day left.
PriorLedgers ==
    {[p \in 1 .. n |-> Entry("LOSS", KZ_LONDON_START + p - 1)] :
       n \in 0 .. MaxPrior}

\* Lines 322-388 on curr = df.iloc[-2] and prev2 = df.iloc[-4]; the column
\* 'trend' is the bar's 200-bar mean, time_utc the bar's time stamp.
session_name(current_hour_utc) ==
    IF current_hour_utc \in KZ_LONDON THEN "London"
    ELSE IF current_hour_utc \in KZ_NY THEN "NY"
    ELSE "None"

check_structure(curr, prev2, time_utc) ==
    IF session_name(curr.hour) = "None" THEN None
    ELSE IF curr.body_size <= LIVE_ATR_MULTIPLIER * curr.atr THEN None
    ELSE LET pad == (Px(curr.atr) * SL_PADDING_NUM) \div SL_PADDING_DEN
             long == [type |-> "LONG", entry |-> Px(curr.low),
                      sl |-> Px(prev2.high) - pad]
             short == [type |-> "SHORT", entry |-> Px(curr.high),
                       sl |-> Px(prev2.low) + pad]
             WithTarget(sig) ==
                 LET risk == Abs(sig.entry - sig.sl)
                 IN sig @@ [tp |-> IF sig.type = "LONG"
                                   THEN sig.entry + risk * RISK_REWARD
                                   ELSE sig.entry - risk * RISK_REWARD,
                            time_utc |-> time_utc]
         IN IF curr.close > curr.ema200
            THEN IF curr.low > prev2.high THEN WithTarget(long) ELSE None
            ELSE IF curr.close < curr.ema200
            THEN IF curr.high < prev2.low THEN WithTarget(short) ELSE None
            ELSE None

\* The bars a cycle can see: the closed bar and the bar two before it, and
\* the bar still forming (df.iloc[-1]).
WithHour(b, h) == [b EXCEPT !.hour = h]

Window(c, q, t) ==
    [curr |-> WithHour(c, HourOf(t - 1)), prev2 |-> WithHour(q, HourOf(t - 3))]

Structures(t) ==
    {Window(BarUp, BarLow, t), Window(BarDown, BarHigh, t),
     Window(BarUp, BarHigh, t)}

LastCandles == {BarLow, BarHigh, BarWide, BarFlat}

\* What one cycle meets: every load reads, every save writes and nothing
\* raises in the try block of lines 456-494, but for at most one of them.
\* raised is "push" when a statement before send_telegram raises and
\* "record" when one between send_telegram and save_history does.
NoFault ==
    [r_update |-> TRUE, w_update |-> "written", r_risk |-> TRUE,
     r_stats |-> TRUE, r_add |-> TRUE, w_add |-> "written",
     raised |-> "none"]

IOCases ==
    {NoFault}
    \cup {[NoFault EXCEPT ![k] = FALSE] :
            k \in {"r_update", "r_risk", "r_stats", "r_add"}}
    \cup {[NoFault EXCEPT ![k] = o] :
            k \in {"w_update", "w_add"}, o \in SaveOutcomes \ {"written"}}
    \cup {[NoFault EXCEPT !.raised = r] : r \in {"push", "record"}}

InitLive ==
    /\ BacktestIdle
    /\ RiskIdle
    /\ SharedIdle
    /\ history_file \in {FileOf(h) : h \in PriorLedgers}
    /\ LAST_SIGNAL_TIME = NaN
    /\ now = FirstCycle
    /\ closed_bars \in Structures(FirstCycle)
    /\ last_job = NoJob
    /\ pushed = << >>
    /\ faults = 0

\* Lines 288-298: None after three failed tries, else the number of bars
\* the exchange returned.
Fetched == {NaN, SMA_PERIOD + WARMUP_EXTRA - 1, LIMIT}

\* Line 403 with the test left out.
InsufficientData_Never(fetched) == FALSE

\* Line 403: fewer bars than the trend window and ten more.
InsufficientData(fetched) == fetched < SMA_PERIOD + WARMUP_EXTRA

\* The cycles that return before any ledger call.
Skipped(fetched) == IsNa(fetched) \/ InsufficientData(fetched)

\* Line 432 without the test: no signal is ever taken for a repeat.
IsDuplicate_Never(signal, last_time) == FALSE

\* Line 432: the signal is of the bar whose signal was processed last.
IsDuplicate(signal, last_time) ==
    last_time /= NaN /\ signal.time_utc = last_time

\* Lines 390-504: one run of job(). fetched is what fetch_data_with_retry
\* returned, last_candle the forming bar, io what the loads and saves meet.
JobRun(fetched, last_candle, io) ==
    IF IsNa(fetched) THEN
        /\ last_job' = [kind |-> "no_data", fetched |-> fetched, sent |-> "none"]
        /\ UNCHANGED <<history_file, LAST_SIGNAL_TIME, pushed>>
    ELSE IF InsufficientData(fetched) THEN
        /\ last_job' = [kind |-> "insufficient", fetched |-> fetched,
                        sent |-> "none"]
        /\ UNCHANGED <<history_file, LAST_SIGNAL_TIME, pushed>>
    ELSE
      LET \* update_open_trades(close, high, low)
          loaded == load_history(history_file, io.r_update)
          resolved == UpdatedHistory(loaded, last_candle.high, last_candle.low, now)
          updated == resolved /= loaded
          file1 == IF updated
                   THEN save_history(history_file, resolved, io.w_update)
                   ELSE history_file
          seen == [fetched |-> fetched,
                   high |-> last_candle.high, low |-> last_candle.low,
                   update_read |-> io.r_update /\ history_file.readable,
                   update_saved |-> ~ updated \/ io.w_update = "written"]
          signal == check_structure(closed_bars.curr, closed_bars.prev2, now - 1)
          \* get_risk_info: calculate_risk_percent(), then calculate_stats()
          risk_percent == calculate_risk_percent(load_history(file1, io.r_risk), now)
          stats == calculate_stats(load_history(file1, io.r_stats), now)
          checked == [risk_percent |-> risk_percent,
                      risk_read |-> io.r_risk /\ file1.readable,
                      persisted_daily_loss |->
                          Cardinality(LossesOfDay(file1.content, now)),
                      stats_read |-> io.r_stats /\ file1.readable,
                      daily_loss |-> stats.daily_loss,
                      consecutive_loss |-> stats.consecutive_loss]
          \* add_signal(signal)
          added == AddedHistory(load_history(file1, io.r_add), signal)
      IN IF signal = None THEN
             /\ last_job' = [kind |-> "no_signal", sent |-> "none"] @@ seen
             /\ history_file' = file1
             /\ UNCHANGED <<LAST_SIGNAL_TIME, pushed>>
         ELSE IF IsDuplicate(signal, LAST_SIGNAL_TIME) THEN
             /\ last_job' = [kind |-> "duplicate", sent |-> "none"] @@ seen
             /\ history_file' = file1
             /\ UNCHANGED <<LAST_SIGNAL_TIME, pushed>>
         ELSE IF risk_percent = 0 THEN
             /\ last_job' = [kind |-> "circuit_breaker", sent |-> "circuit_msg"]
                            @@ seen @@ checked
             /\ history_file' = file1
             /\ UNCHANGED <<LAST_SIGNAL_TIME, pushed>>
         ELSE IF io.raised = "push" THEN
             /\ last_job' = [kind |-> "failed", sent |-> "none"]
                            @@ seen @@ checked
             /\ history_file' = file1
             /\ LAST_SIGNAL_TIME' = signal.time_utc
             /\ UNCHANGED pushed
         ELSE IF io.raised = "record" THEN
             /\ last_job' = [kind |-> "failed", sent |-> "msg"]
                            @@ seen @@ checked
             /\ history_file' = file1
             /\ LAST_SIGNAL_TIME' = signal.time_utc
             /\ pushed' = Append(pushed, signal.time_utc)
         ELSE
             /\ Len(added) <= MaxLedger
             /\ last_job' = [kind |-> "signal", sent |-> "msg",
                             add_read |-> io.r_add /\ file1.readable,
                             add_saved |-> io.w_add = "written"]
                            @@ seen @@ checked
             /\ history_file' = save_history(file1, added, io.w_add)
             /\ LAST_SIGNAL_TIME' = signal.time_utc
             /\ pushed' = Append(pushed, signal.time_utc)

Job ==
    /\ \E fetched \in Fetched, last_candle \in LastCandles,
          io \in IOCases :
         /\ io /= NoFault => faults < MaxFaults /\ ~ Skipped(fetched)
         /\ faults' = IF io /= NoFault THEN faults + 1 ELSE faults
         /\ JobRun(fetched, last_candle, io)
    /\ UNCHANGED <<now, closed_bars, btVars, rmVars, shVars>>

\* The clock reaches the next cycle that sees a newly closed bar.
Tick ==
    /\ now' = IF HourOf(now) < LastCycle THEN now + 1
              ELSE TodayStart(now) + 24 + NextDayCycle
    /\ now' <= LastNow
    /\ closed_bars' \in Structures(now')
    /\ UNCHANGED <<history_file, LAST_SIGNAL_TIME, last_job, pushed, faults, btVars,
                   rmVars, shVars>>

NextLive == Job \/ Tick

SpecLive == InitLive /\ [][NextLive]_vars

\* ------------------------------------------------------------------------
\* Properties of the live cycles
\* ------------------------------------------------------------------------
UpdateRan(job) ==
    job.kind \in {"no_signal", "duplicate", "circuit_breaker", "signal"}

\* C3 as stated: in a cycle that pushes a trade signal and calls
\* add_signal, the file holds fewer than three LOSS entries of the current
\* UTC day.  A load_history that fails gives the risk check an empty list
\* and the 5% tier, so this does not hold.
C3_NoSignalAfterThreeLosses ==
    last_job.kind = "signal" => last_job.persisted_daily_loss < DAILY_LOSS_LIMIT

\* C3: a cycle pushes a trade signal and calls add_signal only when its
\* risk check gave a tier above 0; when that check could read the file,
\* the file then holds fewer than three LOSS entries of the current UTC
\* day.  A file the check cannot read counts as an empty ledger.
C3_SignalOnlyOnPositiveTier ==
    last_job.kind = "signal" =>
      /\ last_job.risk_percent > 0
      /\ last_job.risk_read => last_job.persisted_daily_loss < DAILY_LOSS_LIMIT

\* The breaker stopped a signal: three losses of the day in the file, and
\* no entry for the closed bar was added.
C3_Witness ==
    /\ last_job.kind = "circuit_breaker"
    /\ last_job.risk_read
    /\ last_job.persisted_daily_loss >= DAILY_LOSS_LIMIT
    /\ history_file.readable
    /\ \A p \in DOMAIN history_file.content :
         history_file.content[p].time /= now - 1

\* C8: one update_open_trades with a bar's high and low turns every OPEN
\* entry into CLOSED/WIN when the bar reaches its target, else into
\* CLOSED/LOSS when the bar reaches its stop, else leaves it OPEN/PENDING;
\* a bar reaching both gives WIN.  Seen on the file of every cycle whose
\* loads and saves of the ledger all worked.
ReachesTarget(e, high, low) ==
    IF e.type = "LONG" THEN Px(high) >= e.tp ELSE Px(low) <= e.tp

ReachesStop(e, high, low) ==
    IF e.type = "LONG" THEN Px(low) <= e.sl ELSE Px(high) >= e.sl

LedgerKept(job) ==
    /\ UpdateRan(job)
    /\ job.update_read /\ job.update_saved
    /\ job.kind = "signal" => job.add_read /\ job.add_saved

C8_Resolved(e, e2, high, low) ==
    IF ReachesTarget(e, high, low)
    THEN e2.status = "CLOSED" /\ e2.result = "WIN" /\ e2.close_price = e.tp
    ELSE IF ReachesStop(e, high, low)
    THEN e2.status = "CLOSED" /\ e2.result = "LOSS" /\ e2.close_price = e.sl
    ELSE e2 = e

C8_ResolutionRule ==
    [][(now' = now /\ LedgerKept(last_job'))
         => \A p \in DOMAIN history_file.content :
              /\ p \in DOMAIN history_file'.content
              /\ history_file.content[p].status = "OPEN"
                   => C8_Resolved(history_file.content[p],
                                  history_file'.content[p],
                                  last_job'.high, last_job'.low)]_vars

\* A LONG entry closed as WIN in this hour by a bar that reached both its
\* target and its stop.
C8_Witness ==
    /\ UpdateRan(last_job)
    /\ \E p \in DOMAIN history_file.content :
         LET e == history_file.content[p]
         IN /\ e.type = "LONG" /\ e.status = "CLOSED" /\ e.result = "WIN"
            /\ e.close_time = now
            /\ ReachesTarget(e, last_job.high, last_job.low)
            /\ ReachesStop(e, last_job.high, last_job.low)

\* C9: no step alters a CLOSED entry: it stays at its position with all
\* its fields, whatever bar update_open_trades sees and whatever
\* add_signal appends; the one other thing that can happen to it is that
\* the file no longer holds an entry of its time at all.
C9_ClosedIsFinal ==
    [][\A p \in DOMAIN history_file.content :
         LET e == history_file.content[p]
         IN e.status = "CLOSED"
              => \/ /\ p \in DOMAIN history_file'.content
                    /\ history_file'.content[p] = e
                 \/ \A q \in DOMAIN history_file'.content :
                      history_file'.content[q].time /= e.time]_vars

\* An entry that update_open_trades closed as LOSS in an earlier hour is
\* still as it was after a cycle whose update_open_trades saw a bar
\* reaching its target and whose add_signal appended the closed bar's entry.
C9_Witness ==
    /\ last_job.kind = "signal" /\ last_job.update_read /\ last_job.add_read
    /\ \E p, q \in DOMAIN history_file.content :
         LET e == history_file.content[p]
         IN /\ p < q
            /\ e.status = "CLOSED" /\ e.result = "LOSS"
            /\ e.close_time >= FirstCycle /\ e.close_time < now
            /\ ReachesTarget(e, last_job.high, last_job.low)
            /\ history_file.content[q].time = now - 1

\* C12: every entry of the file stays in the file at its position with
\* its time, type, entry, sl and tp, and the list never gets shorter, in
\* every cycle, also one whose load or save fails.  add_signal appends to
\* the empty list of a failed load and saves that over the file, so this
\* does not hold.
SameTrade(e, e2) ==
    /\ e2.time = e.time /\ e2.type = e.type /\ e2.entry = e.entry
    /\ e2.sl = e.sl /\ e2.tp = e.tp

C12_AppendOnly ==
    [][/\ Len(history_file'.content) >= Len(history_file.content)
       /\ \A p \in DOMAIN history_file.content :
            /\ p \in DOMAIN history_file'.content
            /\ SameTrade(history_file.content[p], history_file'.content[p])]_vars

\* C13: a load_history that cannot read the file gives the empty list:
\* the statistics of that load are 0 and 0, the tier is 5%, and the cycle
\* goes on to push and record its signal; a save_history that fails stops
\* nothing either: the cycle still ends by setting LAST_SIGNAL_TIME.
C13_FailedLoadIsEmpty ==
    last_job.kind \in {"signal", "circuit_breaker"} =>
      /\ ~ last_job.risk_read
           => last_job.risk_percent = 5 /\ last_job.kind = "signal"
      /\ ~ last_job.stats_read
           => last_job.daily_loss = 0 /\ last_job.consecutive_loss = 0

C13_PersistenceNotFatal ==
    /\ []C13_FailedLoadIsEmpty
    /\ [][(now' = now /\ last_job'.kind = "signal")
            => LAST_SIGNAL_TIME' = now - 1]_vars
    /\ [][(now' = now /\ UpdateRan(last_job') /\ ~ last_job'.update_read
              /\ last_job'.kind /= "signal")
            => history_file' = history_file]_vars

\* A cycle whose risk check could not read a file holding three losses of
\* the day: tier 5%, signal pushed and recorded.
C13_Witness ==
    /\ last_job.kind = "signal"
    /\ ~ last_job.risk_read
    /\ last_job.risk_percent = 5
    /\ last_job.persisted_daily_loss >= DAILY_LOSS_LIMIT
    /\ LAST_SIGNAL_TIME = now - 1

\* C14: a cycle whose fetch gave None, or fewer bars than the warm-up
\* needs, changes neither the file nor LAST_SIGNAL_TIME and sends nothing;
\* the clock and the bars are as before, so the next
\* cycle runs as it would have.
C14_SkippedCycle ==
    [][(now' = now /\ (IsNa(last_job'.fetched)
                         \/ last_job'.fetched < SMA_PERIOD + WARMUP_EXTRA))
         => /\ history_file' = history_file
            /\ LAST_SIGNAL_TIME' = LAST_SIGNAL_TIME
            /\ last_job'.sent = "none"
            /\ closed_bars' = closed_bars]_vars

\* A cycle with too few bars, while the file holds an OPEN entry and a
\* signal was pushed before.
C14_Witness ==
    /\ last_job.kind = "insufficient"
    /\ last_job.fetched = SMA_PERIOD + WARMUP_EXTRA - 1
    /\ LAST_SIGNAL_TIME /= NaN
    /\ \E p \in DOMAIN history_file.content :
         history_file.content[p].status = "OPEN"

\* ------------------------------------------------------------------------
\* C22.  Signal deduplication within one monitor process: over any
\* sequence of cycles the signal of one closed bar is sent at most once and
\* the ledger holds at most one entry of it, which was sent; a cycle whose
\* signal is of the bar in LAST_SIGNAL_TIME sends nothing and adds no entry
\* of that bar; and every cycle that enters the processing of a signal ends
\* with LAST_SIGNAL_TIME at the signal's bar, also when a statement before
\* the push or before the save raised.
\* ------------------------------------------------------------------------
RecordedOf(file, t) == {p \in DOMAIN file.content : file.content[p].time = t}

C22_AtMostOnce ==
    /\ \A p, q \in DOMAIN pushed : pushed[p] = pushed[q] => p = q
    /\ \A t \in (FirstCycle - 1) .. LastNow :
          /\ Cardinality(RecordedOf(history_file, t)) <= 1
          /\ RecordedOf(history_file, t) /= {} =>
                \E p \in DOMAIN pushed : pushed[p] = t

C22_Cycle ==
    now' = now =>
        /\ last_job'.kind = "duplicate" =>
              /\ LAST_SIGNAL_TIME = now - 1
              /\ last_job'.sent = "none"
              /\ pushed' = pushed
              /\ LAST_SIGNAL_TIME' = LAST_SIGNAL_TIME
              /\ Cardinality(RecordedOf(history_file', now - 1))
                    <= Cardinality(RecordedOf(history_file, now - 1))
        /\ last_job'.kind \in {"signal", "failed"} =>
              /\ LAST_SIGNAL_TIME /= now - 1
              /\ LAST_SIGNAL_TIME' = now - 1
        /\ pushed' /= pushed =>
              /\ LAST_SIGNAL_TIME /= now - 1
              /\ pushed' = Append(pushed, now - 1)
              /\ LAST_SIGNAL_TIME' = now - 1
        /\ Cardinality(RecordedOf(history_file', now - 1))
              > Cardinality(RecordedOf(history_file, now - 1))
             => last_job'.kind = "signal" /\ pushed' /= pushed

C22_Deduplicated == [] C22_AtMostOnce /\ [][C22_Cycle]_vars

\* A cycle found the signal of a bar whose processing had raised before the
\* push: nothing was sent for the bar, and nothing is sent now.
C22_Witness ==
    /\ last_job.kind = "duplicate"
    /\ LAST_SIGNAL_TIME = now - 1
    /\ check_structure(closed_bars.curr, closed_bars.prev2, now - 1) /= None
    /\ pushed = << >>
    /\ RecordedOf(history_file, now - 1) = {}

\* ------------------------------------------------------------------------
\* C23.  Ledger entry state: after any sequence of cycles, every entry of
\* the file is OPEN exactly when its result is PENDING and CLOSED exactly
\* when its result is WIN or LOSS; a CLOSED entry carries a close_time and
\* the close_price of its tp when WIN and of its sl when LOSS; an OPEN
\* entry has neither field; and an entry that a step changes goes from
\* OPEN/PENDING to CLOSED/WIN or to CLOSED/LOSS, its levels unchanged.
\* ------------------------------------------------------------------------
C23_WellFormed(e) ==
    /\ e.status \in {"OPEN", "CLOSED"}
    /\ e.result \in {"PENDING", "WIN", "LOSS"}
    /\ e.status = "OPEN" <=> e.result = "PENDING"
    /\ e.status = "CLOSED" <=> e.result \in {"WIN", "LOSS"}
    /\ e.status = "OPEN" => {"close_price", "close_time"} \cap DOMAIN e = {}
    /\ e.status = "CLOSED" =>
          /\ {"close_price", "close_time"} \subseteq DOMAIN e
          /\ e.result = "WIN" => e.close_price = e.tp
          /\ e.result = "LOSS" => e.close_price = e.sl

C23_EntriesWellFormed ==
    \A p \in DOMAIN history_file.content :
        C23_WellFormed(history_file.content[p])

C23_Transition ==
    \A p \in DOMAIN history_file.content,
       q \in DOMAIN history_file'.content :
        LET e == history_file.content[p]
            e2 == history_file'.content[q]
        IN (e2.time = e.time /\ e2 /= e) =>
              /\ SameTrade(e, e2)
              /\ e.status = "OPEN" /\ e.result = "PENDING"
              /\ e2.status = "CLOSED" /\ e2.result \in {"WIN", "LOSS"}

C23_EntryStates == [] C23_EntriesWellFormed /\ [][C23_Transition]_vars

\* The file holds an entry of this run closed as WIN, a LOSS entry and the
\* OPEN entry that add_signal appended in this cycle.
C23_Witness ==
    /\ last_job.kind = "signal" /\ last_job.add_saved
    /\ \E p, q, r \in DOMAIN history_file.content :
         LET e == history_file.content[p]
         IN /\ e.result = "WIN" /\ e.time >= FirstCycle - 1
            /\ e.close_time >= FirstCycle
            /\ history_file.content[q].result = "LOSS"
            /\ history_file.content[r].status = "OPEN"
            /\ history_file.content[r].time = now - 1

\* ------------------------------------------------------------------------
\* Two monitor processes whose job() cycles share one trade_history.json
\* ------------------------------------------------------------------------
MaxRuns == 2

Procs == {1, 2}

\* The closed bar of each process's symbol: a LONG signal for the first,
\* a SHORT signal for the second, both of the bar before FirstCycle.
ProcSignal(p) ==
    LET w == IF p = 1 THEN Window(BarUp, BarLow, FirstCycle)
             ELSE Window(BarDown, BarHigh, FirstCycle)
    IN check_structure(w.curr, w.prev2, FirstCycle - 1)

IdleProc == [pc |-> "idle", history |-> << >>, high |-> 0, low |-> 0,
             runs |-> 0, LAST_SIGNAL_TIME |-> NaN]

\* What a saved list states: the entries it holds and how they ended.
Facts(history) ==
    {[time |-> history[q].time, type |-> history[q].type,
      result |-> history[q].result] : q \in DOMAIN history}
    \cup {[time |-> history[q].time, type |-> history[q].type,
           result |-> "PENDING"] : q \in DOMAIN history}

InitShared ==
    /\ BacktestIdle
    /\ RiskIdle
    /\ history_file \in {FileOf(<< >>),
                         FileOf(<<Entry("PENDING", KZ_LONDON_START)>>),
                         FileOf(<<Entry("LOSS", KZ_LONDON_START),
                                  Entry("PENDING", KZ_LONDON_START + 1)>>)}
    /\ LAST_SIGNAL_TIME = NaN
    /\ now = FirstCycle
    /\ closed_bars = << >>
    /\ last_job = NoJob
    /\ pushed = << >>
    /\ faults = 0
    /\ procs = [p \in Procs |-> IdleProc]
    /\ saved = Facts(history_file.content)

SharedFrame ==
    UNCHANGED <<LAST_SIGNAL_TIME, now, closed_bars, last_job, pushed, faults, btVars,
                rmVars>>

\* Lines 412-418 and 113: job() starts, update_open_trades loads the file.
StartUpdate(p) ==
    /\ procs[p].pc = "idle" /\ procs[p].runs < MaxRuns
    /\ \E last_candle \in {BarLow, BarHigh, BarFlat} :
         procs' = [procs EXCEPT ![p] =
                     [@ EXCEPT !.pc = "resolving",
                               !.history = load_history(history_file, TRUE),
                               !.high = last_candle.high,
                               !.low = last_candle.low,
                               !.runs = @ + 1]]
    /\ UNCHANGED <<history_file, saved>>
    /\ SharedFrame

\* Lines 116-158: the loop over the loaded list, and the save when an
\* entry changed; then check_structure and the duplicate test of job().
FinishUpdate(p) ==
    /\ procs[p].pc = "resolving"
    /\ LET resolved == UpdatedHistory(procs[p].history, procs[p].high,
                                      procs[p].low, now)
           updated == resolved /= procs[p].history
           signal == ProcSignal(p)
           duplicate == /\ procs[p].LAST_SIGNAL_TIME /= NaN
                        /\ signal.time_utc = procs[p].LAST_SIGNAL_TIME
       IN /\ history_file' = IF updated
                             THEN save_history(history_file, resolved, "written")
                             ELSE history_file
          /\ saved' = IF updated THEN saved \cup Facts(resolved) ELSE saved
          /\ procs' = [procs EXCEPT ![p] =
                         [@ EXCEPT !.pc = IF duplicate THEN "idle" ELSE "checking",
                                   !.history = << >>]]
    /\ SharedFrame

\* Lines 436-454: get_risk_info loads the file for the tier; a tier of 0
\* ends the cycle.
RiskCheck(p) ==
    /\ procs[p].pc = "checking"
    /\ LET risk_percent ==
               calculate_risk_percent(load_history(history_file, TRUE), now)
       IN procs' = [procs EXCEPT ![p] =
                      [@ EXCEPT !.pc = IF risk_percent = 0 THEN "idle"
                                       ELSE "pushing"]]
    /\ UNCHANGED <<history_file, saved>>
    /\ SharedFrame

\* Lines 485 and 231: the signal is pushed, add_signal loads the file.
StartAdd(p) ==
    /\ procs[p].pc = "pushing"
    /\ procs' = [procs EXCEPT ![p] =
                   [@ EXCEPT !.pc = "appending",
                             !.history = load_history(history_file, TRUE)]]
    /\ UNCHANGED <<history_file, saved>>
    /\ SharedFrame

\* Lines 236-247 and 491: add_signal appends to the loaded list and saves
\* it; job() sets its LAST_SIGNAL_TIME.
FinishAdd(p) ==
    /\ procs[p].pc = "appending"
    /\ LET added == AddedHistory(procs[p].history, ProcSignal(p))
       IN /\ history_file' = save_history(history_file, added, "written")
          /\ saved' = saved \cup Facts(added)
    /\ procs' = [procs EXCEPT ![p] =
                   [@ EXCEPT !.pc = "idle", !.history = << >>,
                             !.LAST_SIGNAL_TIME = ProcSignal(p).time_utc]]
    /\ SharedFrame

NextShared ==
    \E p \in Procs :
      StartUpdate(p) \/ FinishUpdate(p) \/ RiskCheck(p) \/ StartAdd(p)
        \/ FinishAdd(p)

SpecShared == InitShared /\ [][NextShared]_vars

\* C15: no resolution and no appended entry that one process saved is
\* undone by the other process's save: whatever a save_history wrote, the
\* file still states.  job() loads the file up to four times and saves it
\* up to twice, each save writing the list of an earlier load, so this
\* does not hold.
C15_NoLostUpdate ==
    \A u \in saved :
      \E q \in DOMAIN history_file.content :
        /\ history_file.content[q].time = u.time
        /\ history_file.content[q].type = u.type
        /\ u.result /= "PENDING" => history_file.content[q].result = u.result

\* ------------------------------------------------------------------------
\* detect_displacement_fvgs on every short frame of a richer set of bars
\* ------------------------------------------------------------------------
DetectBars == 5

\* BarUp with one gate of the detector closed.
UpNoTrend == [BarUp EXCEPT !.ema200 = NaN]
UpNoAtr == [BarUp EXCEPT !.atr = NaN]
UpOffSession == [BarUp EXCEPT !.hour = KZ_LONDON_END + 1]
UpSmallBody == [BarUp EXCEPT !.body_size = ATR_MULTIPLIER * BarUp.atr]
UpAtTrend == [BarUp EXCEPT !.close = BarUp.ema200]

DetectShapes ==
    {BarLow, BarUp, BarHigh, BarDown, UpNoTrend, UpNoAtr, UpOffSession,
     UpSmallBody, UpAtTrend}

InitDetect ==
    /\ RiskIdle
    /\ LiveIdle
    /\ SharedIdle
    /\ df \in [0 .. (DetectBars - 1) -> DetectShapes]
    /\ fvgs = << >>
    /\ pc = "start"
    /\ i = 0 /\ j = 0 /\ capital = 0 /\ trades = << >> /\ cur = NoTrade
    /\ signals = << >> /\ audit = << >>

\* Lines 50-104 on the frame.
Detect ==
    /\ pc = "start"
    /\ fvgs' = detect_displacement_fvgs(df, DetectBars)
    /\ pc' = "detected"
    /\ UNCHANGED <<df, i, j, capital, trades, cur, signals, audit, rmVars, liveVars, shVars>>

NextDetect == Detect

SpecDetect == InitDetect /\ [][NextDetect]_vars

\* C16: a bar k from the third on and before the tail is a candidate; it
\* gives a Bullish gap (top its low, bottom the high two bars before)
\* exactly when its trend and atr are defined, its hour is in a session,
\* its body exceeds ATR_MULTIPLIER atr, it closes above the trend and its
\* low is above that high; a Bearish gap (top the low two bars before,
\* bottom its high) exactly when the same holds with a close below the
\* trend and its high below that low; nothing else is emitted.  Every gap
\* has top > bottom and is not mitigated, no bar has two gaps, and the list
\* is in the order of created_at.
Gates(k) ==
    /\ k >= LOOKBACK /\ k < DetectBars - TailBars
    /\ df[k].ema200 /= NaN /\ df[k].atr /= NaN
    /\ df[k].hour \in (KZ_LONDON_START .. KZ_LONDON_END)
                        \cup (KZ_NY_START .. KZ_NY_END)
    /\ df[k].body_size > ATR_MULTIPLIER * df[k].atr

GapsAt(k) == {g \in DOMAIN fvgs : fvgs[g].created_at = k}

C16_DetectionRule ==
    pc = "detected" =>
      /\ \A k \in DOMAIN df :
           /\ Cardinality(GapsAt(k)) <= 1
           /\ (\E g \in GapsAt(k) : fvgs[g].type = "Bullish")
                <=> (Gates(k) /\ df[k].close > df[k].ema200
                       /\ df[k].low > df[k - 2].high)
           /\ (\E g \in GapsAt(k) : fvgs[g].type = "Bearish")
                <=> (Gates(k) /\ df[k].close < df[k].ema200
                       /\ df[k].high < df[k - 2].low)
           /\ \A g \in GapsAt(k) :
                IF fvgs[g].type = "Bullish"
                THEN fvgs[g].top = df[k].low /\ fvgs[g].bottom = df[k - 2].high
                ELSE fvgs[g].top = df[k - 2].low /\ fvgs[g].bottom = df[k].high
      /\ \A g \in DOMAIN fvgs :
           /\ fvgs[g].created_at \in DOMAIN df
           /\ fvgs[g].top > fvgs[g].bottom
           /\ ~ fvgs[g].mitigated
      /\ \A g, h \in DOMAIN fvgs :
           g < h => fvgs[g].created_at < fvgs[h].created_at

\* A bar with the gap's shape outside the sessions gives nothing; the
\* next bar gives a Bullish gap.
C16_Witness ==
    /\ pc = "detected"
    /\ df[LOOKBACK] = UpOffSession
    /\ df[LOOKBACK].low > df[0].high
    /\ Len(fvgs) = 1
    /\ fvgs[1].type = "Bullish" /\ fvgs[1].created_at = LOOKBACK + 1

\* C17: the trade entered at bar i from a Bullish gap the bar's low
\* reached is LONG with entry = top, stop = bottom - SL_PADDING_ATR atr[i]
\* and target = entry + |entry - stop| TARGET_RR; from a Bearish gap the
\* bar's high reached it is SHORT with entry = bottom, stop = top +
\* SL_PADDING_ATR atr[i] and target = entry - |entry - stop| TARGET_RR.  So
\* the risk is positive and stop < entry < target for LONG, target <
\* entry < stop for SHORT; top 106, bottom 104, atr 1 give entry 106,
\* stop 103.5, risk 2.5 and target 111.
C17_Levels(t) ==
    LET f == fvgs[t.fvg]
        pad == (Px(df[t.at].atr) * SL_PADDING_ATR_NUM) \div SL_PADDING_ATR_DEN
    IN /\ t.risk > 0
       /\ t.risk = Abs(t.entry - t.sl)
       /\ IF f.type = "Bullish"
          THEN /\ t.direction = "LONG"
               /\ df[t.at].low <= f.top
               /\ t.entry = Px(f.top)
               /\ t.sl = Px(f.bottom) - pad
               /\ t.tp = t.entry + t.risk * TARGET_RR
               /\ t.sl < t.entry /\ t.entry < t.tp
          ELSE /\ t.direction = "SHORT"
               /\ df[t.at].high >= f.bottom
               /\ t.entry = Px(f.bottom)
               /\ t.sl = Px(f.top) + pad
               /\ t.tp = t.entry - t.risk * TARGET_RR
               /\ t.tp < t.entry /\ t.entry < t.sl

C17_Example ==
    LET t == EnterTrade(SignalOf([atr |-> 1],
                                 [type |-> "Bullish", top |-> 106,
                                  bottom |-> 104], 1), 0, 0)
    IN /\ t.entry = Px(106)
       /\ t.sl * 2 = Px(207)
       /\ t.risk * 2 = Px(5)
       /\ t.tp = Px(111)

C17_SignalLevels ==
    /\ pc = "trade" => C17_Levels(cur)
    /\ \A k \in DOMAIN audit : C17_Levels(audit[k])
    /\ \A p \in DOMAIN signals :
         LET f == fvgs[signals[p].fvg]
         IN Px(f.top) - Px(f.bottom)
              + (Px(df[signals[p].at].atr) * SL_PADDING_ATR_NUM)
                  \div SL_PADDING_ATR_DEN > 0
    /\ C17_Example

\* A LONG and a SHORT trade have both been entered and closed.
C17_Witness ==
    /\ \E k \in DOMAIN audit : audit[k].direction = "LONG"
    /\ \E k \in DOMAIN audit : audit[k].direction = "SHORT"

\* C18: for every hour of the day the range test of the backtest and the
\* sets of the live monitor tell the same: London is 7, 8, 9, 10, New York
\* is 12, 13, 14, 15, every other hour is no session for both; so every
\* gap the detector emits lies on a bar the live monitor puts in a session.
C18_SessionsAgree ==
    /\ \A h \in 0 .. 23 :
         /\ is_killzone_hour(h) <=> session_name(h) /= "None"
         /\ session_name(h) = "London" <=> h \in {7, 8, 9, 10}
         /\ session_name(h) = "NY" <=> h \in {12, 13, 14, 15}
         /\ is_killzone_hour(h) <=> h \in {7, 8, 9, 10, 12, 13, 14, 15}
    /\ \A k \in DOMAIN df :
         is_killzone_hour(df[k].hour) <=> session_name(df[k].hour) /= "None"
    /\ \A g \in DOMAIN fvgs :
         session_name(df[fvgs[g].created_at].hour) /= "None"

\* A frame with a London bar that gives a gap and a bar of hour 11 that
\* has the shape of a gap and gives none.
C18_Witness ==
    /\ pc = "detected"
    /\ df[LOOKBACK + 1] = UpOffSession
    /\ session_name(df[LOOKBACK + 1].hour) = "None"
    /\ session_name(df[LOOKBACK].hour) = "London"
    /\ Len(fvgs) = 1 /\ fvgs[1].created_at = LOOKBACK

\* C19 as stated: after the trade is finalized at bar j the next bar
\* check_signal tests is j.  The pass that sets i = j ends with i += 1, so
\* this does not hold.
Finalizes == pc = "trade" /\ Len(trades') = Len(trades) + 1

C19_ResumesAtExitBar ==
    [][Finalizes => pc' = "scan" /\ i' = j]_vars

\* C19: after a trade entered at bar i is finalized at a later bar j, the
\* next bar check_signal tests is j + 1: bar j is not tested for a new
\* signal, and neither is any bar from i + 1 to j.
C19_ResumesAfterExitBar ==
    [][Finalizes => j > i /\ pc' = "scan" /\ i' = j + 1]_vars

\* The scan stands on the bar after the one that closed the last trade,
\* and that closing bar reaches a gap that could still be matched.
C19_Witness ==
    /\ pc = "scan" /\ i < NBars - 1
    /\ audit /= << >>
    /\ LET exit == audit[Len(audit)].exit
       IN /\ i = exit + 1
          /\ \E g \in DOMAIN fvgs :
               Eligible(exit, fvgs[g]) /\ Triggered(df[exit], fvgs[g])

\* C20: a gap can be matched at bar i when it was created before i, is
\* not mitigated and is at most the staleness horizon old, and the bar's
\* price reaches it.  When some gap can be matched, check_signal returns
\* the signal of the one created first; entering the trade marks that gap
\* mitigated and changes no other gap.
Matchable(f, k) ==
    /\ f.created_at < k /\ ~ f.mitigated /\ k - f.created_at <= StaleAge
    /\ IF f.type = "Bullish" THEN df[k].low <= f.top
       ELSE df[k].high >= f.bottom

C20_OldestFirst ==
    [][(pc = "scan" /\ i < NBars - 1) =>
         IF \E h \in DOMAIN fvgs : Matchable(fvgs[h], i)
         THEN /\ Len(signals') = Len(signals) + 1
              /\ LET g == signals'[Len(signals')].fvg
                 IN /\ signals'[Len(signals')].at = i
                    /\ Matchable(fvgs[g], i)
                    /\ \A h \in DOMAIN fvgs :
                         (h /= g /\ Matchable(fvgs[h], i))
                           => fvgs[h].created_at > fvgs[g].created_at
                    /\ fvgs' = [fvgs EXCEPT ![g].mitigated = TRUE]
         ELSE signals' = signals /\ fvgs' = fvgs]_vars

\* A trade was just entered at a bar that reached two gaps that could be
\* matched: the older one is taken, the newer one is left as it was.
C20_Witness ==
    /\ pc = "trade" /\ j = cur.at + 1
    /\ \E h \in DOMAIN fvgs :
         /\ fvgs[h].created_at > fvgs[cur.fvg].created_at
         /\ Matchable(fvgs[h], cur.at)

\* ------------------------------------------------------------------------
\* C21.  Staleness: a gap whose age i - created_at exceeds the staleness
\* horizon is skipped by check_signal at bar i and the pass of the loop at
\* bar i leaves its mitigated flag as it was; the scan index never moves
\* backward, so a gap that was stale once is stale at every later bar, and
\* no signal of the run was ever taken from a gap older than the horizon.
\* ------------------------------------------------------------------------
Stale(k, f) == k - f.created_at > StaleAge

C21_NeverMatched ==
    \A p \in DOMAIN signals :
        /\ ~ Stale(signals[p].at, fvgs[signals[p].fvg])
        /\ signals[p].at > fvgs[signals[p].fvg].created_at

C21_StaleStep ==
    /\ i' >= i
    /\ pc /= "start" =>
         \A g \in DOMAIN fvgs :
             Stale(i, fvgs[g]) =>
                 /\ fvgs'[g] = fvgs[g]
                 /\ Stale(i', fvgs'[g])
                 /\ (pc = "scan" /\ i < NBars - 1 =>
                       check_signal(i, df, fvgs) = None
                       \/ check_signal(i, df, fvgs).fvg /= g)

C21_StaleSkipped == [] C21_NeverMatched /\ [][C21_StaleStep]_vars

\* The scan stands at a bar that reaches into an unmitigated gap older than
\* the horizon, after it has passed the bars at which the gap was young.
C21_Witness ==
    /\ pc = "scan"
    /\ i < NBars - 1
    /\ ~ IsNa(df[i].atr)
    /\ \E g \in DOMAIN fvgs :
           /\ Stale(i, fvgs[g])
           /\ ~ fvgs[g].mitigated
           /\ Triggered(df[i], fvgs[g])
           /\ fvgs[g].created_at + StaleAge >= ScanStart

NextBacktest == Begin \/ ScanStep \/ TradeStep \/ Finish

SpecBacktest == InitBacktest /\ [][NextBacktest]_vars

\* run_backtest is one sequential loop: a pass that can be taken is taken.
SpecBacktestFair == SpecBacktest /\ WF_vars(NextBacktest)

\* ------------------------------------------------------------------------
\* C24.  run_backtest terminates on every finite bar series.  Every pass of
\* the while loop raises the scan index: by 1 when no trade is finalized,
\* to j + 1 > i when a trade is finalized at bar j.  The inner loop starts
\* at i + 1 and goes up one bar at a time, never past the last bar.  So the
\* run reaches the end of the series and returns, no trade being simulated.
\* ------------------------------------------------------------------------
C24_Progress ==
    /\ (pc = "scan" /\ pc' = "scan") => i' = i + 1
    /\ (pc = "scan" /\ pc' = "trade") => i' = i /\ j' = i + 1 /\ j' < NBars
    /\ (pc = "trade" /\ pc' = "trade") => i' = i /\ j' = j + 1 /\ j' < NBars
    /\ (pc = "trade" /\ pc' = "scan") =>
          /\ j > i
          /\ i' = IF Len(trades') > Len(trades) THEN j + 1 ELSE i + 1
          /\ i' > i
    /\ pc = "done" => pc' = "done"

C24_Returned ==
    pc = "done" => i >= NBars - 1 /\ i <= NBars /\ cur = NoTrade

C24_Terminates ==
    /\ [][C24_Progress]_vars
    /\ [] C24_Returned
    /\ <>[](pc = "done")

\* The run has returned after finalizing one trade, scanning on from the
\* bar after its exit and taking another that ran to the last bar.
C24_Witness ==
    /\ pc = "done"
    /\ Len(trades) >= 1
    /\ Len(signals) > Len(trades)
    /\ signals[Len(signals)].at > audit[Len(audit)].exit

====
